---- MODULE Spec2Model ----
(***************************************************************************)
(* Compass Remodeling CMS API (src/main.py, src/schemas.py).               *)
(*                                                                         *)
(* The token codec (_sign / _verify), the auth gate (_require_auth), the   *)
(* login handler, the admin handlers and the public list handlers.         *)
(*                                                                         *)
(* Byte strings and text are sequences of character codes (0..255).        *)
(* Wall-clock time is the integer number of seconds since the epoch;       *)
(* datetime.timestamp() is a float, modelled as a float with an integral   *)
(* value.                                                                  *)
(***************************************************************************)
EXTENDS Integers, Sequences, FiniteSets, TLC

VARIABLES
    now,        \* datetime.now(timezone.utc).timestamp()
    macTab,     \* HMAC-SHA256 under SECRET_KEY, as far as it has been computed by _sign
    store,      \* the document store: collection name -> list of documents
    nextId,     \* the store's identifier generator
    pc,         \* position of the codec scenario
    claims,     \* codec scenario: the claims map given to _sign
    token,      \* codec scenario: the token under test
    verified,   \* codec scenario: what _verify returned
    header,     \* the Authorization header of the last gated request
    outcome,    \* the response of the last request
    req,        \* the last request: the operation and, for login, its body
    listed,     \* the documents returned by the last list request
    tamper,     \* codec scenario: index of the byte changed in the decoded token, 0 for none
    hkind,      \* codec scenario: how the Authorization header was built
    issued,     \* tokens handed to clients by login, with their login time
    steps       \* how many logins, clock advances and other requests have happened

vars == <<now, macTab, store, nextId, pc, claims, token, verified, header, outcome,
          req, listed, tamper, hkind, issued, steps>>

(***************************************************************************)
(* Bounds of the model.                                                    *)
(***************************************************************************)
StartTime == 1000
MaxLogins == 1
MaxTicks == 1
MaxRequests == 1
MaxDocs == 3

\* Python's None, and a value that is present
None == [ok |-> FALSE]
Some(x) == [ok |-> TRUE, v |-> x]

\* The element of a one-element set. The({F(x) : x \in {e}}) is F(e) with e
\* computed once.
The(S) == CHOOSE x \in S : TRUE

(***************************************************************************)
(* Configuration.                                                          *)
(***************************************************************************)
\* "dev-secret-key-change" is an opaque value here: only equality matters.
SECRET_KEY == "dev-secret-key-change"
ACCESS_TOKEN_EXPIRE_MINUTES == 60 * 8
DEFAULT_ADMIN_EMAIL == <<97, 64, 99>>      \* "a@c", standing for admin@compassremodeling.com
DEFAULT_ADMIN_PASSWORD == "Compass2025!"

\* hashlib.sha256(...).digest() is 32 bytes long.
DigestSize == 32

(***************************************************************************)
(* json.dumps(payload, separators=(",", ":")) on a claims map.             *)
(* A claims map is the dict in insertion order: a sequence of              *)
(* <<key, value>> with distinct keys; a key is text, a value is a str, an  *)
(* int or a float with an integral value (the float n.0).                  *)
(***************************************************************************)
StrV(s) == [t |-> "str", s |-> s, n |-> 0]
IntV(n) == [t |-> "int", s |-> <<>>, n |-> n]
FloatV(n) == [t |-> "float", s |-> <<>>, n |-> n]

RECURSIVE Digits(_)
Digits(n) == IF n < 10 THEN <<48 + n>> ELSE Digits(n \div 10) \o <<48 + (n % 10)>>

IntRepr(n) == IF n < 0 THEN <<45>> \o Digits(-n) ELSE Digits(n)

\* float.__repr__ of an integral float below 1e16: the digits and ".0"
FloatRepr(n) == IntRepr(n) \o <<46, 48>>

\* json's string escaping, for the characters of the model: '"' and '\'
RECURSIVE EscapeStr(_)
EscapeStr(s) ==
    IF s = <<>> THEN <<>>
    ELSE (IF Head(s) = 34 THEN <<92, 34>>
          ELSE IF Head(s) = 92 THEN <<92, 92>>
          ELSE <<Head(s)>>) \o EscapeStr(Tail(s))

DumpStr(s) == <<34>> \o EscapeStr(s) \o <<34>>

DumpValue(v) ==
    CASE v.t = "str" -> DumpStr(v.s)
      [] v.t = "int" -> IntRepr(v.n)
      [] v.t = "float" -> FloatRepr(v.n)

RECURSIVE DumpItems(_)
DumpItems(items) ==
    IF items = <<>> THEN <<>>
    ELSE DumpStr(items[1][1]) \o <<58>> \o DumpValue(items[1][2])
         \o (IF Len(items) > 1 THEN <<44>> ELSE <<>>) \o DumpItems(Tail(items))

json_dumps(d) == <<123>> \o DumpItems(d) \o <<125>>

(***************************************************************************)
(* json.loads on the text of an object whose values are strings and        *)
(* numbers. Anything else is reported as a failure: _verify turns both a   *)
(* parse error and a non-dict result (data.get raises) into None.          *)
(***************************************************************************)
Fail == [ok |-> FALSE]

IsDigit(c) == c >= 48 /\ c <= 57

\* the string literal starting at b[i] = '"': [ok, v, pos] with pos after the closing quote
RECURSIVE ScanStr(_, _, _)
ScanStr(b, i, acc) ==
    IF i > Len(b) THEN Fail
    ELSE IF b[i] = 34 THEN [ok |-> TRUE, v |-> acc, pos |-> i + 1]
    ELSE IF b[i] = 92 THEN
        IF i + 1 <= Len(b) /\ b[i + 1] \in {34, 92}
        THEN ScanStr(b, i + 2, Append(acc, b[i + 1]))
        ELSE Fail
    ELSE IF b[i] < 32 THEN Fail
    ELSE ScanStr(b, i + 1, Append(acc, b[i]))

ParseStr(b, i) == IF i <= Len(b) /\ b[i] = 34 THEN ScanStr(b, i + 1, <<>>) ELSE Fail

RECURSIVE ScanDigits(_, _, _)
ScanDigits(b, i, acc) ==
    IF i <= Len(b) /\ IsDigit(b[i]) THEN ScanDigits(b, i + 1, acc * 10 + (b[i] - 48))
    ELSE [v |-> acc, pos |-> i]

\* a number: -?digits, then optionally ".0" (the only fraction the model's floats have)
ParseNum(b, i) ==
    LET neg == i <= Len(b) /\ b[i] = 45
        j == IF neg THEN i + 1 ELSE i
    IN  The({ LET val == IF neg THEN -int.v ELSE int.v
                  leadingZero == int.pos > j + 1 /\ b[j] = 48
              IN  IF int.pos = j \/ leadingZero THEN Fail
                  ELSE IF int.pos <= Len(b) /\ b[int.pos] = 46 THEN
                      IF int.pos + 1 <= Len(b) /\ b[int.pos + 1] = 48
                         /\ ~(int.pos + 2 <= Len(b) /\ IsDigit(b[int.pos + 2]))
                      THEN [ok |-> TRUE, v |-> FloatV(val), pos |-> int.pos + 2]
                      ELSE Fail
                  ELSE [ok |-> TRUE, v |-> IntV(val), pos |-> int.pos]
              : int \in {ScanDigits(b, j, 0)} })

ParseValue(b, i) ==
    IF i <= Len(b) /\ b[i] = 34
    THEN The({ IF s.ok THEN [ok |-> TRUE, v |-> StrV(s.v), pos |-> s.pos] ELSE Fail
               : s \in {ParseStr(b, i)} })
    ELSE ParseNum(b, i)

\* dict semantics: a repeated key keeps its first position and takes the last value
PutItem(items, k, v) ==
    IF \E n \in 1..Len(items) : items[n][1] = k
    THEN [n \in 1..Len(items) |-> IF items[n][1] = k THEN <<k, v>> ELSE items[n]]
    ELSE Append(items, <<k, v>>)

\* the members of an object from b[i] on, up to and including '}'
RECURSIVE ParseMembers(_, _, _)
ParseMembers(b, i, acc) ==
    The({ IF ~k.ok THEN Fail
          ELSE IF ~(k.pos <= Len(b) /\ b[k.pos] = 58) THEN Fail
          ELSE The({ IF ~v.ok THEN Fail
                     ELSE IF v.pos > Len(b) THEN Fail
                     ELSE IF b[v.pos] = 44
                          THEN The({ParseMembers(b, v.pos + 1, items) :
                                       items \in {PutItem(acc, k.v, v.v)}})
                     ELSE IF b[v.pos] = 125 /\ v.pos = Len(b)
                          THEN [ok |-> TRUE, v |-> PutItem(acc, k.v, v.v)]
                     ELSE Fail
                     : v \in {ParseValue(b, k.pos + 1)} })
          : k \in {ParseStr(b, i)} })

json_loads(b) ==
    IF Len(b) >= 2 /\ b[1] = 123
    THEN IF Len(b) = 2 /\ b[2] = 125 THEN [ok |-> TRUE, v |-> <<>>]
         ELSE ParseMembers(b, 2, <<>>)
    ELSE Fail

(***************************************************************************)
(* base64.urlsafe_b64encode / base64.urlsafe_b64decode.                    *)
(***************************************************************************)
\* the URL-safe alphabet: A-Z a-z 0-9 - _
B64Char(k) ==
    IF k < 26 THEN 65 + k
    ELSE IF k < 52 THEN 97 + (k - 26)
    ELSE IF k < 62 THEN 48 + (k - 52)
    ELSE IF k = 62 THEN 45
    ELSE 95

\* the value of a character, -1 for a character outside the alphabet.
\* urlsafe_b64decode translates '-' and '_' to '+' and '/' and decodes with
\* the standard alphabet, so '+' and '/' count as well.
B64Val(c) ==
    IF c >= 65 /\ c <= 90 THEN c - 65
    ELSE IF c >= 97 /\ c <= 122 THEN c - 97 + 26
    ELSE IF c >= 48 /\ c <= 57 THEN c - 48 + 52
    ELSE IF c = 45 \/ c = 43 THEN 62
    ELSE IF c = 95 \/ c = 47 THEN 63
    ELSE -1

\* the k-th character of the encoding of b: every 3 bytes give 4
\* characters, and a last group of 1 or 2 bytes is padded with '='
B64CharAt(b, k) ==
    LET n == Len(b)
        g == (k - 1) \div 4
        r == (k - 1) % 4
        b1 == b[3 * g + 1]
        b2 == IF 3 * g + 2 <= n THEN b[3 * g + 2] ELSE 0
        b3 == IF 3 * g + 3 <= n THEN b[3 * g + 3] ELSE 0
    IN  CASE r = 0 -> B64Char(b1 \div 4)
          [] r = 1 -> B64Char((b1 % 4) * 16 + b2 \div 16)
          [] r = 2 -> IF 3 * g + 2 > n THEN 61 ELSE B64Char((b2 % 16) * 4 + b3 \div 64)
          [] r = 3 -> IF 3 * g + 3 > n THEN 61 ELSE B64Char(b3 % 64)

urlsafe_b64encode(bytes) ==
    The({ [k \in 1..(4 * ((Len(b) + 2) \div 3)) |-> B64CharAt(b, k)] : b \in {bytes} })

IsB64Data(c) == B64Val(c) # -1

\* binascii.a2b_base64 in its non-strict mode reads the characters in
\* order: a character outside the alphabet is skipped; a '=' met when 2 or 3
\* characters of the current group of four have been read, and which with
\* the '=' read since the last data character completes the group, ends the
\* input (what follows is ignored); input that ends inside a group raises
\* binascii.Error.
\* B64End(s): the index of the '=' that ends the input, Len(s) + 1 for none.
B64End(s) ==
    LET DataBefore(i) == {j \in 1..(i - 1) : IsB64Data(s[j])}
        Quad(i) == Cardinality(DataBefore(i)) % 4
        PadsBefore(i) ==
            Cardinality({j \in 1..(i - 1) : s[j] = 61 /\ \A d \in DataBefore(i) : d < j})
    IN  The({ IF stops = {} THEN Len(s) + 1 ELSE CHOOSE i \in stops : \A j \in stops : i <= j
              : stops \in {{i \in {j \in 1..Len(s) : s[j] = 61} :
                               Quad(i) >= 2 /\ Quad(i) + PadsBefore(i) + 1 >= 4}} })

\* the k-th byte that the data characters give
B64ByteAt(data, k) ==
    LET g == (k - 1) \div 3
        r == (k - 1) % 3
        V(j) == B64Val(data[j])
    IN  CASE r = 0 -> V(4 * g + 1) * 4 + V(4 * g + 2) \div 16
          [] r = 1 -> (V(4 * g + 2) % 16) * 16 + V(4 * g + 3) \div 4
          [] r = 2 -> (V(4 * g + 3) % 4) * 64 + V(4 * g + 4)

A2bBase64(s, end) ==
    The({ LET n == Len(data)
              outLen == 3 * (n \div 4) + (IF n % 4 = 0 THEN 0 ELSE (n % 4) - 1)
          IN  IF end > Len(s) /\ n % 4 # 0 THEN Fail
              ELSE [ok |-> TRUE, v |-> [k \in 1..outLen |-> B64ByteAt(data, k)]]
          : data \in {SelectSeq(SubSeq(s, 1, end - 1), IsB64Data)} })

urlsafe_b64decode(str) == The({ A2bBase64(s[1], s[2]) : s \in {<<str, B64End(str)>>} })

(***************************************************************************)
(* The keyed hashes.                                                       *)
(***************************************************************************)
\* hashlib.sha256((password + SECRET_KEY).encode()).hexdigest(): SHA-256 is
\* taken as collision-free, so the digest is named by what was hashed.
_hash_password(password) == <<"sha256", password, SECRET_KEY>>

\* The digest of a message that _sign never authenticated: HMAC-SHA256 is
\* taken as unforgeable, so this digest is a value that no byte string held
\* by a client equals (its entries lie outside 0..255).
UnknownDigest == [i \in 1..DigestSize |-> 256]

\* hmac.new(SECRET_KEY.encode(), msg, hashlib.sha256).digest()
hmac_digest(msg) == IF msg \in DOMAIN macTab THEN macTab[msg] ELSE UnknownDigest

\* a comparison that looks at the lengths only
compare_digest_lengths(a, b) == Len(a) = Len(b)

\* hmac.compare_digest(a, b)
compare_digest(a, b) == a = b

(***************************************************************************)
(* _sign and _verify.                                                      *)
(***************************************************************************)
\* the payload bytes _sign authenticates
PayloadBytes(data) == json_dumps(data)

_sign(data) ==
    The({ urlsafe_b64encode(payload_bytes \o <<46>> \o hmac_digest(payload_bytes))
          : payload_bytes \in {PayloadBytes(data)} })

\* raw.rsplit(b".", 1): the parts around the rightmost '.', or the whole of
\* raw alone when it holds no '.'
LastDot(raw) ==
    The({ IF dots = {} THEN 0 ELSE CHOOSE i \in dots : \A j \in dots : j <= i
          : dots \in {{i \in 1..Len(raw) : raw[i] = 46}} })

rsplit(raw) ==
    The({ IF at = 0 THEN <<raw>>
          ELSE <<SubSeq(raw, 1, at - 1), SubSeq(raw, at + 1, Len(raw))>>
          : at \in {LastDot(raw)} })

\* data.get(key): the value, or None (as a value of type "none")
NoValue == [t |-> "none", s |-> <<>>, n |-> 0]

Get(data, key) ==
    IF \E n \in 1..Len(data) : data[n][1] = key
    THEN data[CHOOSE n \in 1..Len(data) : data[n][1] = key][2]
    ELSE NoValue

\* Python truthiness of a claims value
Truthy(v) ==
    IF v.t = "none" THEN FALSE
    ELSE IF v.t = "str" THEN v.s # <<>>
    ELSE v.n # 0

KeyExp == <<101, 120, 112>>
KeySub == <<115, 117, 98>>

\* data.get("exp") and now > data["exp"]; comparing a float with a string
\* raises TypeError, which _verify's except clause turns into None.
ExpCheck(data, t) ==
    The({ IF ~Truthy(e) THEN "pass"
          ELSE IF e.t = "str" THEN "raise"
          ELSE IF t > e.n THEN "expired"
          ELSE "pass"
          : e \in {Get(data, KeyExp)} })

\* _verify from the comparison of the tags on
VerifyParts(payload_bytes, sig, t) ==
    IF ~compare_digest(sig, hmac_digest(payload_bytes)) THEN None
    ELSE IF \E n \in 1..Len(payload_bytes) : payload_bytes[n] >= 128 THEN None
    ELSE The({ IF ~data.ok THEN None
               ELSE IF ExpCheck(data.v, t) # "pass" THEN None
               ELSE Some(data.v)
               : data \in {json_loads(payload_bytes)} })

\* _verify(token) run at time t: Some(claims), or None
_verify(tok, t) ==
    The({ IF ~raw.ok THEN None
          ELSE The({ IF Len(parts) # 2 THEN None
                     ELSE VerifyParts(parts[1], parts[2], t)
                     : parts \in {rsplit(raw.v)} })
          : raw \in {urlsafe_b64decode(tok)} })

(***************************************************************************)
(* _require_auth.                                                          *)
(***************************************************************************)
Lower(s) == [i \in 1..Len(s) |-> IF s[i] >= 65 /\ s[i] <= 90 THEN s[i] + 32 ELSE s[i]]

StartsWith(s, p) == Len(s) >= Len(p) /\ SubSeq(s, 1, Len(p)) = p

BearerPrefix == <<98, 101, 97, 114, 101, 114, 32>>     \* 'bearer '

\* authorization.split(' ', 1)[1]: what follows the first space
AfterFirstSpace(s) ==
    LET i == CHOOSE i \in 1..Len(s) : s[i] = 32 /\ \A j \in 1..(i - 1) : s[j] # 32
    IN  SubSeq(s, i + 1, Len(s))

\* A response: the status, the detail of an HTTPException, the generated
\* id of a create and the access_token of a login.
Response(status, detail, id, tok) == [status |-> status, detail |-> detail, id |-> id, token |-> tok]
Ok == Response(200, "", 0, <<>>)
Http401(detail) == Response(401, detail, 0, <<>>)

\* a gate that does not look at the subject
_require_auth_any_sub(authorization, t) ==
    IF ~authorization.ok \/ authorization.v = <<>>
       \/ ~StartsWith(Lower(authorization.v), BearerPrefix)
    THEN Http401("Not authenticated")
    ELSE IF ~_verify(AfterFirstSpace(authorization.v), t).ok
    THEN Http401("Invalid token")
    ELSE Ok

\* _require_auth(authorization) run at time t: Ok when it returns, the
\* HTTPException it raises otherwise
_require_auth(authorization, t) ==
    IF ~authorization.ok \/ authorization.v = <<>>
       \/ ~StartsWith(Lower(authorization.v), BearerPrefix)
    THEN Http401("Not authenticated")
    ELSE The({ IF ~data.ok \/ data.v = <<>> \/ ~Truthy(Get(data.v, KeySub))
               THEN Http401("Invalid token")
               ELSE Ok
               : data \in {_verify(AfterFirstSpace(authorization.v), t)} })

(***************************************************************************)
(* The document store (database.py: get_documents, create_document).       *)
(***************************************************************************)
EmptyStore ==
    [adminuser |-> <<>>, service |-> <<>>, galleryitem |-> <<>>, testimonial |-> <<>>,
     message |-> <<>>, mediaasset |-> <<>>]

NoSteps == [logins |-> 0, ticks |-> 0, requests |-> 0]

\* get_documents(collection, {}): the documents in the store's order
get_documents(st, collection) == st[collection]

\* create_document(collection, data): the store with the document added
\* under a generated identifier
create_document(st, collection, data, id) ==
    [st EXCEPT ![collection] = Append(@, [_id |-> id] @@ data)]

\* get_admin_by_email(email): users[0] if users else None
get_admin_by_email(st, email) ==
    LET users == SelectSeq(get_documents(st, "adminuser"), LAMBDA u : u.email = email)
    IN  IF users # <<>> THEN Some(users[1]) ELSE None

\* the start-up code: the default admin is created unless it exists
Bootstrap(st) ==
    IF get_admin_by_email(st, DEFAULT_ADMIN_EMAIL).ok THEN st
    ELSE create_document(st, "adminuser",
             [email |-> DEFAULT_ADMIN_EMAIL,
              password_hash |-> _hash_password(DEFAULT_ADMIN_PASSWORD),
              name |-> "Compass Admin", role |-> "admin", active |-> TRUE], 0)

(***************************************************************************)
(* The codec scenario: _sign on a claims map, an optional change of one    *)
(* byte of the decoded token, then _verify or _require_auth.               *)
(***************************************************************************)
\* sub: absent, "", "a", '."'
SubChoices == {<<>>, <<<<KeySub, StrV(<<>>)>>>>, <<<<KeySub, StrV(<<97>>)>>>>,
               <<<<KeySub, StrV(<<46, 34>>)>>>>}

\* exp: absent, zero, before, at and after the time of verification, and text
ExpChoices == {<<>>, <<<<KeyExp, IntV(0)>>>>, <<<<KeyExp, FloatV(0)>>>>,
               <<<<KeyExp, IntV(StartTime - 1)>>>>, <<<<KeyExp, FloatV(StartTime - 1)>>>>,
               <<<<KeyExp, IntV(StartTime)>>>>, <<<<KeyExp, FloatV(StartTime)>>>>,
               <<<<KeyExp, IntV(StartTime + 1)>>>>, <<<<KeyExp, FloatV(StartTime + 1)>>>>,
               <<<<KeyExp, StrV(<<120>>)>>>>}

ClaimsChoices == {s \o e : s \in SubChoices, e \in ExpChoices}

\* The values HMAC-SHA256 may take on a payload: 32 bytes, with the byte
\* 0x2E at none, one or two of its positions.
TagWith(fill, dots) == [i \in 1..DigestSize |-> IF i \in dots THEN 46 ELSE fill]

Tags == {TagWith(200, d) : d \in {{}, {1}, {DigestSize \div 2}, {DigestSize}, {1, DigestSize}}}

\* the values taken in the server's runs: one without the byte 0x2E, one with
LoginTags == {TagWith(200, {}), TagWith(200, {DigestSize \div 2})}

HasDot(b) == \E i \in 1..Len(b) : b[i] = 46

\* a request: the handler, the time it ran at and, for login, its body
Request(op, at, email, password) == [op |-> op, at |-> at, email |-> email, password |-> password]
NoReq == Request("none", 0, <<>>, "")

serverVars == <<store, nextId, issued, steps, req, listed>>

InitCodec ==
    /\ now = StartTime
    /\ macTab = <<>>
    /\ store = EmptyStore
    /\ nextId = 1
    /\ req = NoReq
    /\ listed = <<>>
    /\ pc = "start"
    /\ claims \in ClaimsChoices
    /\ token = <<>>
    /\ verified = None
    /\ header = None
    /\ outcome = Ok
    /\ tamper = 0
    /\ hkind = "none"
    /\ issued = {}
    /\ steps = NoSteps

\* _sign(claims); HMAC-SHA256 of the payload is any of Tags
CodecSign ==
    /\ pc = "start"
    /\ \E payload_bytes \in {PayloadBytes(claims)}, tag \in Tags :
          macTab' = (payload_bytes :> tag)
    /\ claims' = claims
    /\ token' = _sign(claims)'
    /\ pc' = "signed"
    /\ UNCHANGED <<now, verified, header, outcome, tamper, hkind>>
    /\ UNCHANGED serverVars

\* one byte of the decoded payload or of the decoded tag is changed
CodecTamper ==
    /\ pc = "signed"
    /\ \E raw \in {urlsafe_b64decode(token).v}, sep \in {Len(PayloadBytes(claims)) + 1} :
          \E i \in (1..Len(raw)) \ {sep} : \E b \in {46, 65} \ {raw[i]} :
              /\ token' = urlsafe_b64encode([raw EXCEPT ![i] = b])
              /\ tamper' = i
    /\ pc' = "tampered"
    /\ UNCHANGED <<now, macTab, claims, verified, header, outcome, hkind>>
    /\ UNCHANGED serverVars

CodecVerify ==
    /\ pc \in {"signed", "tampered"}
    /\ verified' = _verify(token, now)
    /\ pc' = "verified"
    /\ UNCHANGED <<now, macTab, claims, token, header, outcome, tamper, hkind>>
    /\ UNCHANGED serverVars

\* the Authorization headers a client may build around the token
Garbage == <<33, 33, 97>>
HeaderOf(kind, tok) ==
    CASE kind = "absent" -> None
      [] kind = "empty" -> Some(<<>>)
      [] kind = "basic" -> Some(<<66, 97, 115, 105, 99, 32, 120, 121, 122>>)
      [] kind = "nospace" -> Some(<<66, 101, 97, 114, 101, 114>> \o tok)
      [] kind = "token only" -> Some(tok)
      [] kind = "garbage" -> Some(<<66, 101, 97, 114, 101, 114, 32>> \o Garbage)
      [] kind = "Bearer" -> Some(<<66, 101, 97, 114, 101, 114, 32>> \o tok)
      [] kind = "bearer" -> Some(<<98, 101, 97, 114, 101, 114, 32>> \o tok)
      [] kind = "BEARER" -> Some(<<66, 69, 65, 82, 69, 82, 32>> \o tok)

HeaderKinds == {"absent", "empty", "basic", "nospace", "token only", "garbage",
                "Bearer", "bearer", "BEARER"}

CodecAuthorize ==
    /\ pc = "signed"
    /\ \E k \in HeaderKinds : \E h \in {HeaderOf(k, token)} :
          /\ hkind' = k
          /\ header' = h
          /\ outcome' = _require_auth(h, now)
    /\ pc' = "authorized"
    /\ UNCHANGED <<now, macTab, claims, token, verified, tamper>>
    /\ UNCHANGED serverVars

NextCodec == CodecSign \/ CodecTamper \/ CodecVerify \/ CodecAuthorize

SpecCodec == InitCodec /\ [][NextCodec]_vars

(***************************************************************************)
(* The request handlers.                                                   *)
(***************************************************************************)
TokenLifetime == ACCESS_TOKEN_EXPIRE_MINUTES * 60

\* the claims login signs
LoginClaims(email, t) == <<<<KeySub, StrV(email)>>, <<KeyExp, FloatV(t + TokenLifetime)>>>>

\* a login that looks at the email only
LoginAccepts_email_only(st, email, password) == get_admin_by_email(st, email).ok

\* whether login accepts the credentials
LoginAccepts(st, email, password) ==
    LET user == get_admin_by_email(st, email)
    IN  user.ok /\ user.v.password_hash = _hash_password(password)

\* HMAC-SHA256 is computed on a payload for the first time: its value is
\* any of LoginTags that is not the digest of another payload
Computes(msg) ==
    IF msg \in DOMAIN macTab THEN macTab' = macTab
    ELSE \E tag \in LoginTags :
            /\ \A m \in DOMAIN macTab : macTab[m] # tag
            /\ macTab' = macTab @@ (msg :> tag)

codecVars == <<pc, claims, token, verified, tamper, hkind>>

\* POST /api/auth/login
login(email, password) ==
    /\ steps.logins < MaxLogins
    /\ steps' = [steps EXCEPT !.logins = @ + 1]
    /\ req' = Request("login", now, email, password)
    /\ UNCHANGED <<now, store, nextId, header, listed>>
    /\ IF ~LoginAccepts(store, email, password)
       THEN /\ outcome' = Http401("Invalid email or password")
            /\ UNCHANGED <<macTab, issued>>
       ELSE /\ \E payload_bytes \in {PayloadBytes(LoginClaims(email, now))} :
                  Computes(payload_bytes)
            /\ \E tok \in {_sign(LoginClaims(email, now))'} :
                  /\ outcome' = Response(200, "", 0, tok)
                  /\ issued' = issued \cup {[token |-> tok, t |-> now]}
    /\ UNCHANGED codecVars

\* an admin create handler: _require_auth, then create_document
AdminCreate(op, collection, data, authorization) ==
    /\ steps.requests < MaxRequests
    /\ steps' = [steps EXCEPT !.requests = @ + 1]
    /\ req' = Request(op, now, <<>>, "")
    /\ header' = authorization
    /\ \E auth \in {_require_auth(authorization, now)} :
          IF auth.status # 200
          THEN /\ outcome' = auth
               /\ UNCHANGED <<store, nextId>>
          ELSE /\ store' = create_document(store, collection, data, nextId)
               /\ nextId' = nextId + 1
               /\ outcome' = Response(200, "", nextId, <<>>)
    /\ UNCHANGED <<now, macTab, issued, listed>>
    /\ UNCHANGED codecVars

\* a create handler that does not call the gate
create_service_admin_unguarded(svc, authorization) ==
    /\ steps.requests < MaxRequests
    /\ steps' = [steps EXCEPT !.requests = @ + 1]
    /\ req' = Request("create_service_admin", now, <<>>, "")
    /\ header' = authorization
    /\ store' = create_document(store, "service", svc, nextId)
    /\ nextId' = nextId + 1
    /\ outcome' = Response(200, "", nextId, <<>>)
    /\ UNCHANGED <<now, macTab, issued, listed>>
    /\ UNCHANGED codecVars

\* POST /api/admin/services
create_service_admin(svc, authorization) ==
    AdminCreate("create_service_admin", "service", svc, authorization)

\* POST /api/admin/gallery
create_gallery_item_admin(item, authorization) ==
    AdminCreate("create_gallery_item_admin", "galleryitem", item, authorization)

\* POST /api/admin/testimonials
create_testimonial_admin(item, authorization) ==
    AdminCreate("create_testimonial_admin", "testimonial", item, authorization)

\* POST /api/admin/media-url
save_media_url(asset, authorization) ==
    AdminCreate("save_media_url", "mediaasset", asset, authorization)

\* GET /api/admin/messages: _id is renamed to id
list_messages_admin(authorization) ==
    /\ steps.requests < MaxRequests
    /\ steps' = [steps EXCEPT !.requests = @ + 1]
    /\ req' = Request("list_messages_admin", now, <<>>, "")
    /\ header' = authorization
    /\ \E auth \in {_require_auth(authorization, now)} :
          IF auth.status # 200
          THEN /\ outcome' = auth
               /\ listed' = <<>>
          ELSE /\ outcome' = Ok
               /\ listed' = [n \in 1..Len(store.message) |->
                                [id |-> store.message[n]._id, name |-> store.message[n].name]]
    /\ UNCHANGED <<now, macTab, store, nextId, issued>>
    /\ UNCHANGED codecVars

\* POST /api/messages: no auth
submit_message(msg) ==
    /\ steps.requests < MaxRequests
    /\ steps' = [steps EXCEPT !.requests = @ + 1]
    /\ req' = Request("submit_message", now, <<>>, "")
    /\ header' = None
    /\ store' = create_document(store, "message", msg, nextId)
    /\ nextId' = nextId + 1
    /\ outcome' = Response(200, "received", nextId, <<>>)
    /\ UNCHANGED <<now, macTab, issued, listed>>
    /\ UNCHANGED codecVars

\* the clock moves on
Tick(d) ==
    /\ steps.ticks < MaxTicks
    /\ steps' = [steps EXCEPT !.ticks = @ + 1]
    /\ now' = now + d
    /\ UNCHANGED <<macTab, store, nextId, header, outcome, req, listed, issued>>
    /\ UNCHANGED codecVars

(***************************************************************************)
(* The server: requests in any order, from clients that hold the tokens    *)
(* login gave out.                                                         *)
(***************************************************************************)
BearerOf(tok) == Some(<<66, 101, 97, 114, 101, 114, 32>> \o tok)

\* no header, a token that was never signed, and the tokens login gave out
ClientHeaders == {None, BearerOf(Garbage)} \cup {BearerOf(tk.token) : tk \in issued}

\* the right credentials, a wrong password, an unknown email
Credentials == {<<DEFAULT_ADMIN_EMAIL, DEFAULT_ADMIN_PASSWORD>>,
                <<DEFAULT_ADMIN_EMAIL, "guess">>,
                <<<<120, 64, 99>>, DEFAULT_ADMIN_PASSWORD>>}

ServiceBody == [title |-> "t", order |-> 0]
GalleryBody == [title |-> "g", order |-> 0]
TestimonialBody == [client_name |-> "c", order |-> 0]
MediaBody == [url |-> "u", type |-> "image/png"]
MessageBody == [name |-> "n", message |-> "m"]

Init ==
    /\ now = StartTime
    /\ macTab = <<>>
    /\ store = Bootstrap(EmptyStore)
    /\ nextId = 1
    /\ req = NoReq
    /\ listed = <<>>
    /\ pc = "server"
    /\ claims = <<>>
    /\ token = <<>>
    /\ verified = None
    /\ header = None
    /\ outcome = Ok
    /\ tamper = 0
    /\ hkind = "none"
    /\ issued = {}
    /\ steps = NoSteps

Next ==
    \/ \E c \in Credentials : login(c[1], c[2])
    \/ \E h \in ClientHeaders : create_service_admin(ServiceBody, h)
    \/ \E h \in ClientHeaders : create_gallery_item_admin(GalleryBody, h)
    \/ \E h \in ClientHeaders : create_testimonial_admin(TestimonialBody, h)
    \/ \E h \in ClientHeaders : save_media_url(MediaBody, h)
    \/ \E h \in ClientHeaders : list_messages_admin(h)
    \/ submit_message(MessageBody)
    \/ \E d \in {1, TokenLifetime, TokenLifetime + 1} : Tick(d)

Spec == Init /\ [][Next]_vars

(***************************************************************************)
(* The public list handlers.                                               *)
(***************************************************************************)
\* d.get("order", 0)
OrderOf(d) == IF "order" \in DOMAIN d THEN d.order ELSE 0

\* an insertion that puts a document before the documents of equal key
InsertByOrder_unstable(sorted, d) ==
    The({ SubSeq(sorted, 1, k) \o <<d>> \o SubSeq(sorted, k + 1, Len(sorted))
          : k \in {Cardinality({n \in 1..Len(sorted) : OrderOf(sorted[n]) < OrderOf(d)})} })

\* list.sort(key=...) is stable: a document goes after every document
\* already placed whose key is not greater than its own
InsertByOrder(sorted, d) ==
    The({ SubSeq(sorted, 1, k) \o <<d>> \o SubSeq(sorted, k + 1, Len(sorted))
          : k \in {Cardinality({n \in 1..Len(sorted) : OrderOf(sorted[n]) <= OrderOf(d)})} })

RECURSIVE SortByOrder(_)
SortByOrder(docs) ==
    IF docs = <<>> THEN <<>>
    ELSE The({ InsertByOrder(front, docs[Len(docs)])
               : front \in {SortByOrder(SubSeq(docs, 1, Len(docs) - 1))} })

\* d.pop("_id", None)
PopId(d) == [k \in DOMAIN d \ {"_id"} |-> d[k]]

\* get_documents, docs.sort(key=lambda d: d.get("order", 0)), d.pop("_id", None)
ListPublic(op, collection) ==
    /\ pc = "list"
    /\ req' = Request(op, now, <<>>, "")
    /\ \E docs \in {SortByOrder(get_documents(store, collection))} :
          listed' = [n \in 1..Len(docs) |-> PopId(docs[n])]
    /\ outcome' = Ok
    /\ UNCHANGED <<now, macTab, store, nextId, header, issued, steps>>
    /\ UNCHANGED codecVars

\* GET /api/services
list_services_public == ListPublic("list_services_public", "service")

\* GET /api/gallery
list_gallery_public == ListPublic("list_gallery_public", "galleryitem")

\* GET /api/testimonials
list_testimonials_public == ListPublic("list_testimonials_public", "testimonial")

\* The documents a collection may hold: with an order, and without one
\* (a document that did not come through the admin handlers).
DocChoices == {[title |-> t, order |-> o] : t \in {"a", "b"}, o \in {-1, 0, 1}}
              \cup {[title |-> t] : t \in {"a", "b"}}

Contents == UNION {[1..n -> DocChoices] : n \in 0..MaxDocs}

PublicCollections == {"service", "galleryitem", "testimonial"}

InitList ==
    /\ now = StartTime
    /\ macTab = <<>>
    /\ \E c \in PublicCollections, docs \in Contents :
          store = [Bootstrap(EmptyStore) EXCEPT
                      ![c] = [n \in 1..Len(docs) |-> [_id |-> n] @@ docs[n]]]
    /\ nextId = MaxDocs + 1
    /\ req = NoReq
    /\ listed = <<>>
    /\ pc = "list"
    /\ claims = <<>>
    /\ token = <<>>
    /\ verified = None
    /\ header = None
    /\ outcome = Ok
    /\ tamper = 0
    /\ hkind = "none"
    /\ issued = {}
    /\ steps = NoSteps

NextList == list_services_public \/ list_gallery_public \/ list_testimonials_public

SpecList == InitList /\ [][NextList]_vars

(***************************************************************************)
(* Properties.                                                             *)
(***************************************************************************)
IsNumber(v) == v.t \in {"int", "float"}

\* the payload and the tag that _sign put into the token of the codec scenario
SignedPayload == PayloadBytes(claims)
SignedTag == macTab[SignedPayload]

\* C1: for every claims map whose exp is later than the time of
\* verification, and whatever the tag is, _verify(_sign(C)) returns C.
C1_RoundTrip ==
    (pc = "verified" /\ tamper = 0 /\ IsNumber(Get(claims, KeyExp))
        /\ Get(claims, KeyExp).n > now)
    => verified = Some(claims)

\* C2: a token of _sign with one byte of its decoded payload or of its
\* decoded tag changed is never verified, and _verify returns claims only
\* for a payload and a tag where the tag is the HMAC of the payload.
C2_Integrity ==
    /\ (pc = "verified" /\ tamper # 0) => verified = None
    /\ (pc = "verified" /\ verified.ok) =>
          \E raw \in {urlsafe_b64decode(token).v} :
             raw = SignedPayload \o <<46>> \o SignedTag

C2_Witness ==
    /\ pc = "verified"
    /\ tamper # 0
    /\ tamper <= Len(SignedPayload)
    /\ ~HasDot(SignedTag)
    /\ Truthy(Get(claims, KeySub))
    /\ Get(claims, KeyExp) = FloatV(StartTime + 1)

\* C3: for every claims map with an exp earlier than the time of
\* verification, zero included, _verify(_sign(C)) returns no claims.
C3_Expiry ==
    (pc = "verified" /\ tamper = 0 /\ IsNumber(Get(claims, KeyExp))
        /\ Get(claims, KeyExp).n < now)
    => verified = None

\* C4: _require_auth answers 401 when the header is absent, does not start
\* with "bearer " in any case of the letters, carries a token that _verify
\* rejects, or carries a token whose claims have no non-empty sub; it
\* returns only when none of these holds.
C4_AuthGate ==
    pc = "authorized" =>
        LET accepted == /\ hkind \in {"Bearer", "bearer", "BEARER"}
                        /\ _verify(token, now).ok
                        /\ Get(claims, KeySub).t = "str"
                        /\ Get(claims, KeySub).s # <<>>
        IN  IF accepted THEN outcome = Ok
            ELSE outcome.status = 401 /\ outcome.id = 0 /\ outcome.token = <<>>

C4_Witness ==
    /\ pc = "authorized"
    /\ hkind = "BEARER"
    /\ _verify(token, now).ok
    /\ Get(claims, KeySub) = StrV(<<>>)
    /\ outcome.status = 401

AdminCollections == {"service", "galleryitem", "testimonial", "mediaasset"}
CreateOps == {"create_service_admin", "create_gallery_item_admin",
              "create_testimonial_admin", "save_media_url"}
AdminOps == CreateOps \cup {"list_messages_admin"}

\* the request of this step was handled by one of ops
Handled(ops) == steps'.requests # steps.requests /\ req'.op \in ops

\* C5: an admin handler touches the store only after _require_auth has
\* returned for the same request: without a header, or with a token that is
\* rejected, the answer is 401 and no collection changes; a document enters
\* service, galleryitem, testimonial or mediaasset only through a request
\* that carries a token login gave out and that has not expired.
C5_AdminGate ==
    [][ /\ (Handled(AdminOps) /\ _require_auth(header', now) # Ok)
              => (outcome'.status = 401 /\ store' = store)
        /\ (Handled({"list_messages_admin"}) /\ _require_auth(header', now) # Ok)
              => listed' = <<>>
        /\ (Handled(AdminOps) /\ header' \in {None, BearerOf(Garbage)})
              => (outcome'.status = 401 /\ store' = store)
        /\ (\E c \in AdminCollections : store'[c] # store[c])
              => /\ Handled(CreateOps)
                 /\ outcome'.status = 200
                 /\ \E tk \in issued : /\ header' = BearerOf(tk.token)
                                       /\ now <= tk.t + TokenLifetime
      ]_vars

C5_Witness ==
    /\ issued # {}
    /\ req.op = "create_gallery_item_admin"
    /\ header = None
    /\ outcome.status = 401
    /\ store.galleryitem = <<>>

\* the claims inside a token: what precedes the '.' and the 32 bytes of the tag
ClaimsInside(tok) ==
    The({ IF Len(raw) > DigestSize /\ raw[Len(raw) - DigestSize] = 46
          THEN json_loads(SubSeq(raw, 1, Len(raw) - DigestSize - 1))
          ELSE Fail
          : raw \in {urlsafe_b64decode(tok).v} })

\* C6: login gives a token exactly when a credential with the email exists
\* and its digest is _hash_password(password); an unknown email and a wrong
\* password get the same 401 and no token; the token's claims are sub = the
\* email and exp = the time of login + 8 hours; login leaves the store as
\* it is.
C6_Login ==
    [][ (steps'.logins # steps.logins /\ req'.op = "login") =>
           /\ store' = store
           /\ IF \E n \in 1..Len(store.adminuser) :
                    /\ store.adminuser[n].email = req'.email
                    /\ store.adminuser[n].password_hash = _hash_password(req'.password)
              THEN /\ outcome'.status = 200
                   /\ ClaimsInside(outcome'.token) =
                         Some(<<<<KeySub, StrV(req'.email)>>,
                                <<KeyExp, FloatV(now + 8 * 60 * 60)>>>>)
                   /\ issued' = issued \cup {[token |-> outcome'.token, t |-> now]}
              ELSE /\ outcome' = Http401("Invalid email or password")
                   /\ issued' = issued
      ]_vars

C6_Witness ==
    /\ req.op = "login"
    /\ req.email = DEFAULT_ADMIN_EMAIL
    /\ outcome.status = 200
    /\ outcome.token # <<>>

\* C7: a token that login returned at time t is accepted by the admin create
\* handlers at every time up to t + 8 hours, and rejected at every later time.
C7_TokenLifetime ==
    \A tk \in issued :
        (req.op \in CreateOps /\ header = BearerOf(tk.token)) =>
            IF req.at <= tk.t + 8 * 60 * 60
            THEN outcome.status = 200 /\ outcome.id >= 1
            ELSE outcome.status = 401

ListedCollection ==
    CASE req.op = "list_services_public" -> "service"
      [] req.op = "list_gallery_public" -> "galleryitem"
      [] req.op = "list_testimonials_public" -> "testimonial"

\* C8: a public list handler returns the documents of its collection, each
\* once and without _id, in ascending order of the order field, a missing
\* order counting as 0 and documents of equal order staying in the order
\* they were fetched in.
C8_PublicList ==
    req.op \in {"list_services_public", "list_gallery_public", "list_testimonials_public"} =>
        LET docs == store[ListedCollection]
            n == Len(docs)
            Key(d) == IF "order" \in DOMAIN d THEN d.order ELSE 0
        IN  /\ Len(listed) = n
            /\ \E perm \in [1..n -> 1..n] :
                  /\ \A i, j \in 1..n : i # j => perm[i] # perm[j]
                  /\ \A i \in 1..n :
                        /\ DOMAIN listed[i] = DOMAIN docs[perm[i]] \ {"_id"}
                        /\ \A k \in DOMAIN listed[i] : listed[i][k] = docs[perm[i]][k]
                  /\ \A i, j \in 1..n : i < j =>
                        \/ Key(docs[perm[i]]) < Key(docs[perm[j]])
                        \/ Key(docs[perm[i]]) = Key(docs[perm[j]]) /\ perm[i] < perm[j]

C8_Witness ==
    /\ req.op = "list_services_public"
    /\ Len(store.service) = 3
    /\ "order" \notin DOMAIN store.service[2]
    /\ "order" \in DOMAIN store.service[1]
    /\ "order" \in DOMAIN store.service[3]
    /\ store.service[1].order = 1
    /\ store.service[3].title = "a"
    /\ store.service[3].order = 0
    /\ store.service[2].title = "b"
    /\ Len(listed) = 3
    /\ listed[1].title = "b"

\* C9: claims that _verify returns with an exp have an exp strictly after
\* the time of verification.
C9_VerifiedNotExpired ==
    (pc = "verified" /\ verified.ok /\ Get(verified.v, KeyExp).t # "none")
    => (IsNumber(Get(verified.v, KeyExp)) /\ Get(verified.v, KeyExp).n > now)

\* C10: the split of _verify on the rightmost '.' gives back the payload and
\* the tag that _sign joined, also when the payload or the tag holds a '.'.
C10_SplitRecovers ==
    (pc = "verified" /\ tamper = 0)
    => rsplit(urlsafe_b64decode(token).v) = <<SignedPayload, SignedTag>>

====
